---- MODULE Spec2Model ----
(***************************************************************************)
(* The AQI map component (src/src/components/dashboard/AQIMap.tsx): the    *)
(* React state of the component, the asynchronous getMapData, the          *)
(* one-second countdown interval, the auto-refresh toggle, the Refresh Now *)
(* button, and the click on the map with its estimateAQI.                  *)
(*                                                                         *)
(* Coordinates are integers in units of 0.0001 degree, pollution indices   *)
(* integers in units of 1/IndexScale.  Time advances with                  *)
(* the firings of the one-second interval.  A fetch of the location set    *)
(* completes at any moment up to the request timeout; its result (a list   *)
(* of the data feed, or a rejection) is chosen when it completes.          *)
(***************************************************************************)
EXTENDS Integers, Sequences, FiniteSets, TLC

\* useState(300), setCountdown(300), return 300: the refresh interval in seconds.
Interval == 300

\* axios.create({ timeout: 10000 }): a request still outstanding after ten
\* seconds is rejected, so it sees at most ten firings of the one-second interval.
RequestTimeout == 10

VARIABLES
    locations,           \* useState<Location[]>([])
    loading,             \* useState(initialLoading), set by the mount effect
    error,               \* useState<string | null>(null)
    lastUpdated,         \* useState<string>('')
    isRefreshing,        \* useState(false)
    autoRefreshEnabled,  \* useState(true)
    countdown,           \* useState(300)
    countdownTimer,      \* TRUE while the setInterval of the timer effect is installed
    mounted,             \* FALSE once the component is torn down
    inFlight,            \* the outstanding fetchGeospatialData() calls, in start order
    snapshotCurrent,     \* history: locations hold the result of the latest-started completed fetch
    clickedLocation,     \* useState<Location | null>(null)
    ties,                \* how the double arithmetic has rounded the exact ties met so far
    lastEvent,           \* history: the handler that ran last
    readings,            \* history: the estimates made since the last fetch completion
    classified,          \* an index and the labels the four classifiers have given it
    obs                  \* observer of a countdown run: what it has counted

\* The component, its timer and its fetches, with their history.
pvars == << locations, loading, error, lastUpdated, isRefreshing, autoRefreshEnabled,
            countdown, countdownTimer, mounted, inFlight, clickedLocation, ties,
            snapshotCurrent, lastEvent >>

vars == << pvars, obs, readings, classified >>

\* The React state the completion of a fetch writes.
dataVars == << locations, error, lastUpdated >>

----------------------------------------------------------------------------
(* Data *)

\* aqi: number.  A pollution index is held as an integer count of
\* 1/IndexScale, so that an index need not be a whole number.
IndexScale == 4

\* The whole index n.
Index(n) == n * IndexScale

\* A location whose index is the whole number aqi.
Loc(name, lat, lng, aqi) ==
    [location |-> name, coordinates |-> <<lat, lng>>, aqi |-> Index(aqi)]

\* A location whose index is aqi + 1 - 1/IndexScale, not a whole number.
LocFractional(name, lat, lng, aqi) ==
    [location |-> name, coordinates |-> <<lat, lng>>, aqi |-> Index(aqi + 1) - 1]

\* The fallback list of the catch block.
FallbackLocations ==
    << Loc("Sector 56", 284089, 770926, 175),
       Loc("DLF Cyber City", 284595, 770266, 160),
       Loc("Golf Course Road", 284321, 771025, 155),
       Loc("MG Road", 284773, 770497, 168) >>

\* What the data feed may deliver on success: response.data of GET /geospatial.
Feeds ==
    { << Loc("A", 284000, 770000, 100), Loc("B", 284200, 770200, 200) >>,
      << Loc("C", 284500, 770500, 40) >>,
      << >> }

\* new Date().toLocaleString(): the wall clock is not modelled.
Timestamp == "ts"

FallbackSuffix == " (fallback data)"

NoError == "null"

\* useState<Location | null>(null): no location has been clicked.
NoLocation == [location |-> "null", coordinates |-> << >>, aqi |-> 0]

FetchError == "Failed to load map data"

\* Whether a last-updated label ends with the fallback annotation.
HasFallbackAnnotation(label) ==
    /\ Len(label) >= Len(FallbackSuffix)
    /\ SubSeq(label, Len(label) - Len(FallbackSuffix) + 1, Len(label)) = FallbackSuffix

\* An outstanding fetch: age, the interval firings it has seen; superseded
\* (history), whether a fetch started after it has completed.
NewFetch == [age |-> 0, superseded |-> FALSE]

----------------------------------------------------------------------------
(* Exact arithmetic on naturals of any size, for the sums of estimateAQI:  *)
(* a natural is the sequence of its digits to the base 100, the lowest     *)
(* first, and zero is the empty sequence.                                  *)

RECURSIVE BigOf(_)
BigOf(n) == IF n = 0 THEN << >> ELSE << n % 100 >> \o BigOf(n \div 100)

RECURSIVE BigScaleCarry(_, _, _)
BigScaleCarry(x, m, carry) ==
    IF x = << >> THEN BigOf(carry)
    ELSE LET t == Head(x) * m + carry
         IN  << t % 100 >> \o BigScaleCarry(Tail(x), m, t \div 100)

\* x * m, for a machine integer m >= 0 (below 2^31 / 100).
BigScale(x, m) == IF m = 0 THEN << >> ELSE BigScaleCarry(x, m, 0)

RECURSIVE BigAddCarry(_, _, _)
BigAddCarry(x, y, carry) ==
    IF x = << >> /\ y = << >> THEN BigOf(carry)
    ELSE LET t == (IF x = << >> THEN 0 ELSE Head(x))
                  + (IF y = << >> THEN 0 ELSE Head(y)) + carry
         IN  << t % 100 >> \o BigAddCarry(IF x = << >> THEN x ELSE Tail(x),
                                          IF y = << >> THEN y ELSE Tail(y),
                                          t \div 100)

BigAdd(x, y) == BigAddCarry(x, y, 0)

RECURSIVE BigLeqFrom(_, _, _)
BigLeqFrom(x, y, i) ==
    IF i = 0 THEN TRUE
    ELSE IF x[i] # y[i] THEN x[i] < y[i]
    ELSE BigLeqFrom(x, y, i - 1)

\* x <= y
BigLeq(x, y) == IF Len(x) # Len(y) THEN Len(x) < Len(y) ELSE BigLeqFrom(x, y, Len(x))

RECURSIVE LargestQuotient(_, _, _, _)
\* The largest k in lo..hi-1 with k * x <= y, given that lo * x <= y.
LargestQuotient(lo, hi, x, y) ==
    IF hi - lo <= 1 THEN lo
    ELSE LET mid == (lo + hi) \div 2
         IN  IF BigLeq(BigScale(x, mid), y)
                THEN LargestQuotient(mid, hi, x, y)
                ELSE LargestQuotient(lo, mid, x, y)

----------------------------------------------------------------------------
(* estimateAQI *)

\* The coordinate unit of the model: lat.toFixed(4), lng.toFixed(4).
UnitsPerDegree == 10000

\* Math.abs(...) < 0.005, in coordinate units.
Tolerance == 50

Abs(x) == IF x < 0 THEN 0 - x ELSE x

\* The result of 0 / 0, which Math.round passes on.
NaN == 0 - 1

\* Mutant of Near: the tolerance is ten times too wide.
NearWide(loc, lat, lng) ==
    /\ Abs(lat - loc.coordinates[1]) < 10 * Tolerance
    /\ Abs(lng - loc.coordinates[2]) < 10 * Tolerance

\* Mutant of Near: the box includes its border.
NearInclusive(loc, lat, lng) ==
    /\ Abs(lat - loc.coordinates[1]) <= Tolerance
    /\ Abs(lng - loc.coordinates[2]) <= Tolerance

\* The predicate of locations.find: loc is within the tolerance box of the point.
Near(loc, lat, lng) ==
    /\ Abs(lat - loc.coordinates[1]) < Tolerance
    /\ Abs(lng - loc.coordinates[2]) < Tolerance

RECURSIVE FindFrom(_, _, _, _)
FindFrom(list, lat, lng, i) ==
    IF i > Len(list) THEN 0
    ELSE IF Near(list[i], lat, lng) THEN i
    ELSE FindFrom(list, lat, lng, i + 1)

RECURSIVE FindLastFrom(_, _, _, _)
FindLastFrom(list, lat, lng, i) ==
    IF i = 0 THEN 0
    ELSE IF Near(list[i], lat, lng) THEN i
    ELSE FindLastFrom(list, lat, lng, i - 1)

\* Mutant of NearbyLocation: the last location within the box wins.
LastNearbyLocation(list, lat, lng) == FindLastFrom(list, lat, lng, Len(list))

\* locations.find(...): the position of the first location within the
\* tolerance box, 0 for undefined.
NearbyLocation(list, lat, lng) == FindFrom(list, lat, lng, 1)

\* Mutant of DistSquared: the longitude is left out.
DistSquaredOfLatitude(loc, lat, lng) ==
    (lat - loc.coordinates[1]) * (lat - loc.coordinates[1])

\* Math.pow(lat - locLat, 2) + Math.pow(lng - locLng, 2), in squared coordinate units.
DistSquared(loc, lat, lng) ==
    (lat - loc.coordinates[1]) * (lat - loc.coordinates[1])
    + (lng - loc.coordinates[2]) * (lng - loc.coordinates[2])

\* weightSum and aqiSum before the loop, as the exact fractions W / P and
\* A / P; the weights are counted in squared coordinate units.
NoSums == [P |-> BigOf(1), W |-> << >>, A |-> << >>]

\* x * UnitsPerDegree^2
BigDegreeSquared(x) == BigScale(BigScale(x, UnitsPerDegree), UnitsPerDegree)

\* One pass of the forEach body: weight = distSquared === 0 ? 1 : 1 / distSquared;
\* weightSum += weight; aqiSum += loc.aqi * weight.
Accumulated(sums, aqi, distSquared) ==
    IF distSquared = 0
       THEN [P |-> BigDegreeSquared(sums.P),
             W |-> BigAdd(BigDegreeSquared(sums.W), sums.P),
             A |-> BigAdd(BigDegreeSquared(sums.A), BigScale(sums.P, aqi))]
       ELSE [P |-> BigScale(sums.P, distSquared),
             W |-> BigAdd(BigScale(sums.W, distSquared), sums.P),
             A |-> BigAdd(BigScale(sums.A, distSquared), BigScale(sums.P, aqi))]

RECURSIVE SumsUpTo(_, _, _, _)
\* weightSum and aqiSum after the first i locations.
SumsUpTo(list, lat, lng, i) ==
    IF i = 0 THEN NoSums
    ELSE Accumulated(SumsUpTo(list, lat, lng, i - 1), list[i].aqi,
                     DistSquared(list[i], lat, lng))

\* Mutant of MathRound: Math.floor.
MathFloor(aqiSum, weightSum) ==
    IF weightSum = << >> THEN NaN
    ELSE Index(LargestQuotient(0, 2 ^ 20, BigScale(weightSum, IndexScale), aqiSum))

\* Mutant of MathRound: Math.floor(...) + 1.
MathFloorPlusOne(aqiSum, weightSum) ==
    IF weightSum = << >> THEN NaN
    ELSE MathFloor(aqiSum, weightSum) + Index(1)

\* Math.round(aqiSum / weightSum): the nearest whole index, a half rounded up.
MathRound(aqiSum, weightSum) ==
    IF weightSum = << >> THEN NaN
    ELSE Index(LargestQuotient(0, 2 ^ 20, BigScale(weightSum, 2 * IndexScale),
                               BigAdd(BigScale(aqiSum, 2), BigScale(weightSum, IndexScale))))

\* The return statement estimateAQI leaves by.
EstimateBranch(list, lat, lng) ==
    IF Len(list) = 0 THEN "empty"
    ELSE IF NearbyLocation(list, lat, lng) # 0 THEN "nearby"
    ELSE "interpolated"

\* The sums the interpolation branch divides.
Sums(list, lat, lng) == SumsUpTo(list, lat, lng, Len(list))

\* Mutant of estimateAQI: the guard for the empty list is missing.
estimateAQIUnguarded(list, lat, lng) ==
    LET nearbyLocation == NearbyLocation(list, lat, lng)
        sums == Sums(list, lat, lng)
    IN  IF nearbyLocation # 0
           THEN list[nearbyLocation].aqi
           ELSE MathRound(sums.A, sums.W)

estimateAQI(list, lat, lng) ==
    LET branch == EstimateBranch(list, lat, lng)
        sums == Sums(list, lat, lng)
    IN  CASE branch = "empty" -> 0
          [] branch = "nearby" -> list[NearbyLocation(list, lat, lng)].aqi
          [] branch = "interpolated" -> MathRound(sums.A, sums.W)

----------------------------------------------------------------------------
(* The category labels of an index: the classifiers of the map, the gauge, *)
(* the trend chart and the forecast page.                                  *)

\* Mutant of getAQILevel: the bounds of the categories are exclusive.
getAQILevelExclusive(aqi) ==
    IF aqi < Index(50) THEN "Good"
    ELSE IF aqi < Index(100) THEN "Moderate"
    ELSE IF aqi < Index(150) THEN "Unhealthy for Sensitive Groups"
    ELSE IF aqi < Index(200) THEN "Unhealthy"
    ELSE IF aqi < Index(300) THEN "Very Unhealthy"
    ELSE "Hazardous"

\* AQIMap.tsx
getAQICategory(aqi) ==
    IF aqi <= Index(50) THEN "Good"
    ELSE IF aqi <= Index(100) THEN "Moderate"
    ELSE IF aqi <= Index(150) THEN "Unhealthy for Sensitive Groups"
    ELSE IF aqi <= Index(200) THEN "Unhealthy"
    ELSE IF aqi <= Index(300) THEN "Very Unhealthy"
    ELSE "Hazardous"

\* AQIGauge.tsx: the label of the level.
getAQILevel(aqi) ==
    IF aqi <= Index(50) THEN "Good"
    ELSE IF aqi <= Index(100) THEN "Moderate"
    ELSE IF aqi <= Index(150) THEN "Unhealthy for Sensitive Groups"
    ELSE IF aqi <= Index(200) THEN "Unhealthy"
    ELSE IF aqi <= Index(300) THEN "Very Unhealthy"
    ELSE "Hazardous"

\* TrendChart.tsx
getAQILabel(aqi) ==
    IF aqi <= Index(50) THEN "Good"
    ELSE IF aqi <= Index(100) THEN "Moderate"
    ELSE IF aqi <= Index(150) THEN "Unhealthy for Sensitive Groups"
    ELSE IF aqi <= Index(200) THEN "Unhealthy"
    ELSE IF aqi <= Index(300) THEN "Very Unhealthy"
    ELSE "Hazardous"

\* The Forecast page: its getAQILabel.
ForecastGetAQILabel(aqi) ==
    IF aqi <= Index(50) THEN "Good"
    ELSE IF aqi <= Index(100) THEN "Moderate"
    ELSE IF aqi <= Index(150) THEN "Unhealthy for Sensitive Groups"
    ELSE IF aqi <= Index(200) THEN "Unhealthy"
    ELSE IF aqi <= Index(300) THEN "Very Unhealthy"
    ELSE "Hazardous"

NoLabels == [map |-> "", gauge |-> "", trend |-> "", forecast |-> ""]

\* Nothing is being classified.
NotClassified == [value |-> 0, labels |-> NoLabels]

\* The largest whole index classified.
MaxClassified == 320

\* The indices classified: every multiple of 1/IndexScale up to MaxClassified.
IndexValues == 0..Index(MaxClassified)

----------------------------------------------------------------------------
(* The observer of a countdown run (testable property 5 of the             *)
(* specification): it counts the timer ticks and the refreshes they        *)
(* trigger, and notes whether a fetch completed meanwhile.  It gives up at *)
(* a manual refresh, at teardown and after the 300th tick.                 *)

\* The observer at rest.
NotObserving == [on |-> FALSE, ticks |-> 0, refreshes |-> 0, completed |-> FALSE]

Observing == obs.on

\* What the observer holds after the given handler has run.
Observed(event) ==
    IF ~Observing THEN NotObserving
    ELSE CASE event = "tick" ->
                IF obs.ticks = Interval THEN NotObserving
                ELSE [obs EXCEPT !.ticks = @ + 1]
           [] event = "timerRefresh" ->
                IF obs.ticks = Interval THEN NotObserving
                ELSE [obs EXCEPT !.ticks = @ + 1, !.refreshes = @ + 1]
           [] event \in {"resolved", "rejected"} -> [obs EXCEPT !.completed = TRUE]
           [] event \in {"toggle", "click"} -> obs
           [] OTHER -> NotObserving

\* The history of the estimates: not kept.
NotNoting == [on |-> FALSE, seen |-> {}, again |-> FALSE]

\* The history of the estimates: kept, and no click since the last completion.
NoReadings == [on |-> TRUE, seen |-> {}, again |-> FALSE]

\* The history of the estimates after the given handler has run: a click adds
\* the reading it has stored, and notes whether the point had been clicked
\* before; a fetch completion the component applies starts the history afresh.
Noted(event) ==
    IF ~readings.on THEN readings
    ELSE CASE event = "click" ->
                [on |-> TRUE,
                 seen |-> readings.seen \cup { [point |-> clickedLocation'.coordinates,
                                                aqi |-> clickedLocation'.aqi] },
                 again |-> \E r \in readings.seen :
                              r.point = clickedLocation'.coordinates]
           [] event \in {"resolved", "rejected"} /\ mounted -> NoReadings
           [] OTHER -> readings

\* The handler that ran, for the histories and for the observer.
Record(event) ==
    /\ lastEvent' = event
    /\ obs' = Observed(event)
    /\ readings' = Noted(event)

----------------------------------------------------------------------------
(* State after construction and the mount effects *)

InitComponent ==
    /\ locations = << >>
    /\ loading = TRUE
    /\ error = NoError
    /\ lastUpdated = ""
    /\ isRefreshing = TRUE
    /\ autoRefreshEnabled = TRUE
    /\ countdown = Interval
    /\ countdownTimer = TRUE
    /\ mounted = TRUE
    /\ inFlight = << NewFetch >>
    /\ clickedLocation = NoLocation
    /\ ties = {}
    /\ snapshotCurrent = TRUE
    /\ lastEvent = "mount"
    /\ obs = NotObserving

Init == InitComponent /\ readings = NotNoting /\ classified = NotClassified

----------------------------------------------------------------------------
(* getMapData *)

\* getMapData up to its await: setIsRefreshing(true) and the call of the feed.
GetMapDataStart(outstanding) ==
    /\ isRefreshing' = TRUE
    /\ inFlight' = Append(outstanding, NewFetch)

\* The outstanding fetches once the i-th has completed: it leaves, and those
\* started before it are superseded.
Remaining(i) ==
    [ j \in 1..(Len(inFlight) - 1) |->
        IF j < i THEN [inFlight[j] EXCEPT !.superseded = TRUE] ELSE inFlight[j + 1] ]

\* Mutant of Finally: the countdown is not reset.
FinallyKeepsCountdown ==
    /\ loading' = FALSE
    /\ isRefreshing' = FALSE
    /\ countdown' = countdown

\* Mutant of Finally: loading is left as it is.
FinallyKeepsLoading ==
    /\ loading' = loading
    /\ isRefreshing' = FALSE
    /\ countdown' = Interval

\* The finally block.
Finally ==
    /\ loading' = FALSE
    /\ isRefreshing' = FALSE
    /\ countdown' = Interval

\* Mutant of ApplyData: the delivered list is merged into the one held.
ApplyDataMerging(data) ==
    /\ locations' = locations \o data
    /\ lastUpdated' = Timestamp
    /\ error' = NoError

\* Mutant of ApplyData: a success leaves the error as it is.
ApplyDataKeepsError(data) ==
    /\ locations' = data
    /\ lastUpdated' = Timestamp
    /\ error' = error

\* The try block after the await.
ApplyData(data) ==
    /\ locations' = data
    /\ lastUpdated' = Timestamp
    /\ error' = NoError

\* Mutant of ApplyFallback: the error is flagged but no list is substituted.
ApplyFallbackKeepsLocations ==
    /\ error' = FetchError
    /\ locations' = locations
    /\ lastUpdated' = Timestamp \o FallbackSuffix

\* The catch block.
ApplyFallback ==
    /\ error' = FetchError
    /\ locations' = FallbackLocations
    /\ lastUpdated' = Timestamp \o FallbackSuffix

\* Mutant of Dropped: the finally block takes effect after the teardown.
DroppedButFinally ==
    /\ Finally
    /\ UNCHANGED << dataVars, snapshotCurrent >>

\* A state update of a component that is no longer mounted is dropped.
Dropped ==
    UNCHANGED << dataVars, loading, isRefreshing, countdown, snapshotCurrent >>

\* The i-th outstanding fetch resolves with data.
FetchResolved(i, data) ==
    /\ i \in 1..Len(inFlight)
    /\ inFlight' = Remaining(i)
    /\ Record("resolved")
    /\ IF mounted
          THEN /\ ApplyData(data)
               /\ Finally
               /\ snapshotCurrent' = ~inFlight[i].superseded
          ELSE Dropped
    /\ UNCHANGED << autoRefreshEnabled, countdownTimer, mounted, clickedLocation, ties, classified >>

\* The i-th outstanding fetch rejects.
FetchRejected(i) ==
    /\ i \in 1..Len(inFlight)
    /\ inFlight' = Remaining(i)
    /\ Record("rejected")
    /\ IF mounted
          THEN /\ ApplyFallback
               /\ Finally
               /\ snapshotCurrent' = ~inFlight[i].superseded
          ELSE Dropped
    /\ UNCHANGED << autoRefreshEnabled, countdownTimer, mounted, clickedLocation, ties, classified >>

----------------------------------------------------------------------------
(* The countdown interval *)

\* Mutant of NextCountdown: the reset comes one tick late.
NextCountdownOffByOne(prev) == IF prev <= 0 THEN Interval ELSE prev - 1

\* The updater passed to setCountdown: its return value.
NextCountdown(prev) == IF prev <= 1 THEN Interval ELSE prev - 1

\* Mutant of Expired: the refresh waits for a countdown of zero.
ExpiredAtZero(prev) == prev <= 0

\* The updater passed to setCountdown: whether it calls getMapData.
Expired(prev) == prev <= 1

\* The outstanding fetches one second later.
Aged == [ j \in 1..Len(inFlight) |-> [inFlight[j] EXCEPT !.age = @ + 1] ]

\* No outstanding request has reached its timeout.
NoneTimedOut == \A j \in 1..Len(inFlight) : inFlight[j].age < RequestTimeout

\* One firing of the interval callback, a second after the previous one.
Tick ==
    /\ countdownTimer
    /\ NoneTimedOut
    /\ countdown' = NextCountdown(countdown)
    /\ IF Expired(countdown)
          THEN /\ GetMapDataStart(Aged)
               /\ Record("timerRefresh")
          ELSE /\ UNCHANGED isRefreshing
               /\ inFlight' = Aged
               /\ Record("tick")
    /\ UNCHANGED << dataVars, loading, autoRefreshEnabled, countdownTimer, mounted,
                    snapshotCurrent, clickedLocation, ties, classified >>

----------------------------------------------------------------------------
(* User actions: the controls are rendered only when loading is false *)

\* Mutant of TimerEffect: no cleanup, an installed interval is never cleared.
TimerEffectWithoutCleanup(enabled) == countdownTimer' = (countdownTimer \/ enabled)

\* The timer effect after a render with the given flag: its cleanup clears the
\* interval of the previous run, and it installs a new one only if enabled.
TimerEffect(enabled) == countdownTimer' = enabled

\* Mutant of ToggleAutoRefresh: re-enabling also resets the countdown.
ToggleAutoRefreshResetting ==
    /\ mounted
    /\ ~loading
    /\ autoRefreshEnabled' = ~autoRefreshEnabled
    /\ TimerEffect(~autoRefreshEnabled)
    /\ countdown' = IF autoRefreshEnabled THEN countdown ELSE Interval
    /\ Record("toggle")
    /\ UNCHANGED << dataVars, loading, isRefreshing, mounted, inFlight, snapshotCurrent, clickedLocation, ties, classified >>

\* onClick of the auto-refresh button.
ToggleAutoRefresh ==
    /\ mounted
    /\ ~loading
    /\ autoRefreshEnabled' = ~autoRefreshEnabled
    /\ TimerEffect(~autoRefreshEnabled)
    /\ Record("toggle")
    /\ UNCHANGED << dataVars, loading, isRefreshing, countdown, mounted, inFlight,
                    snapshotCurrent, clickedLocation, ties, classified >>

\* Mutant of RefreshNow: the button works only while auto-refresh is enabled.
RefreshNowOnlyWhenEnabled ==
    /\ mounted
    /\ ~loading
    /\ ~isRefreshing
    /\ autoRefreshEnabled
    /\ GetMapDataStart(inFlight)
    /\ Record("refreshNow")
    /\ UNCHANGED << dataVars, loading, autoRefreshEnabled, countdown, countdownTimer,
                    mounted, snapshotCurrent, clickedLocation, ties, classified >>

\* onClick of the Refresh Now button, which is disabled while isRefreshing.
RefreshNow ==
    /\ mounted
    /\ ~loading
    /\ ~isRefreshing
    /\ GetMapDataStart(inFlight)
    /\ Record("refreshNow")
    /\ UNCHANGED << dataVars, loading, autoRefreshEnabled, countdown, countdownTimer,
                    mounted, snapshotCurrent, clickedLocation, ties, classified >>

\* Mutant of Unmount: the effect returns no cleanup, the interval stays installed.
UnmountWithoutCleanup ==
    /\ mounted
    /\ mounted' = FALSE
    /\ countdownTimer' = countdownTimer
    /\ Record("unmount")
    /\ UNCHANGED << dataVars, loading, isRefreshing, autoRefreshEnabled, countdown,
                    inFlight, snapshotCurrent, clickedLocation, ties, classified >>

\* The component is torn down: the cleanup of the timer effect runs.
Unmount ==
    /\ mounted
    /\ mounted' = FALSE
    /\ countdownTimer' = FALSE
    /\ Record("unmount")
    /\ UNCHANGED << dataVars, loading, isRefreshing, autoRefreshEnabled, countdown,
                    inFlight, snapshotCurrent, clickedLocation, ties, classified >>

\* Whether aqiSum / weightSum lies exactly midway between the whole index
\* rounded and the one below it.
ExactTie(aqiSum, weightSum, rounded) ==
    BigAdd(BigScale(aqiSum, 2), BigScale(weightSum, IndexScale))
        = BigScale(weightSum, 2 * rounded)

\* The values estimateAQI can return in double arithmetic: where the exact
\* quotient lies midway between two whole indices, the rounding errors of
\* the sums decide to which of the two Math.round takes it.
Estimates(list, lat, lng) ==
    LET estimate == estimateAQI(list, lat, lng)
        sums == Sums(list, lat, lng)
    IN  IF /\ EstimateBranch(list, lat, lng) = "interpolated"
           /\ estimate >= Index(1)
           /\ ExactTie(sums.A, sums.W, estimate)
           THEN { estimate, estimate - Index(1) }
           ELSE { estimate }

\* The query points of a click on the map.
ClickPoints ==
    { <<284000, 770000>>, <<284200, 770200>>, <<284100, 770100>>,
      <<284049, 769951>>, <<284050, 770000>>, <<284030, 769980>>,
      <<284300, 770100>>, <<284089, 770926>>, <<284400, 770800>> }

MaxLocations == 3

\* Stations A and B of the specification's interpolation scenario, with
\* whole and fractional indices, and a station N within the tolerance box of A.
Stations ==
    { Loc("A", 284000, 770000, 100), LocFractional("A2", 284000, 770000, 87),
      Loc("B", 284200, 770200, 200), Loc("B2", 284200, 770200, 100),
      LocFractional("B3", 284200, 770200, 87), Loc("N", 284030, 769980, 60) }

\* The lists of distinct stations, in every order.
EstimateFeeds ==
    UNION { { list \in [1..n -> Stations] :
                \A i, j \in 1..n : i # j => list[i] # list[j] } : n \in 0..MaxLocations }

\* What the feed delivers to the component whose map is clicked between
\* refreshes: three stations for which the estimate at (28.4300, 77.0100)
\* lies midway between two whole indices.
MapFeeds ==
    { << Loc("A", 284000, 770000, 100), LocFractional("A2", 284000, 770000, 87),
         LocFractional("B3", 284200, 770200, 87) >> }

\* The location sets the component can hold.
LocationSets == Feeds \cup EstimateFeeds \cup MapFeeds \cup { FallbackLocations }

\* The values of estimateAQI for the location sets and query points above.
\* (The comparison makes TLC tabulate the function once.)
EstimateTable ==
    LET table == [ list \in LocationSets |->
                   [ point \in ClickPoints |-> Estimates(list, point[1], point[2]) ] ]
    IN  IF table = table THEN table ELSE table

\* The map is rendered, so that a click on it can be handled: the component
\* returns the placeholder instead while loading is true.
MapClickable == mounted /\ ~loading

\* The double arithmetic is deterministic: a tie it has rounded before is
\* rounded the same way again.
RoundedAsBefore(list, point, aqi) ==
    \A tie \in ties : (tie.list = list /\ tie.point = point) => tie.aqi = aqi

\* Mutant of HandleMapClick: the estimate is smoothed with the reading on display.
HandleMapClickSmoothing(lat, lng) ==
    /\ MapClickable
    /\ \E estimatedAQI \in EstimateTable[locations][<<lat, lng>>] :
          /\ RoundedAsBefore(locations, <<lat, lng>>, estimatedAQI)
          /\ ties' = IF Cardinality(EstimateTable[locations][<<lat, lng>>]) > 1
                        THEN ties \cup { [list |-> locations, point |-> <<lat, lng>>,
                                          aqi |-> estimatedAQI] }
                        ELSE ties
          /\ clickedLocation' = [location |-> "Location at lat, lng",
                                 coordinates |-> <<lat, lng>>,
                                 aqi |-> IF clickedLocation = NoLocation
                                           THEN estimatedAQI
                                           ELSE (estimatedAQI + clickedLocation.aqi) \div 2]
    /\ Record("click")
    /\ UNCHANGED << dataVars, loading, isRefreshing, autoRefreshEnabled, countdown,
                    countdownTimer, mounted, inFlight, snapshotCurrent, classified >>

\* handleMapClick(lat, lng)
HandleMapClick(lat, lng) ==
    /\ MapClickable
    /\ \E estimatedAQI \in EstimateTable[locations][<<lat, lng>>] :
          /\ RoundedAsBefore(locations, <<lat, lng>>, estimatedAQI)
          /\ ties' = IF Cardinality(EstimateTable[locations][<<lat, lng>>]) > 1
                        THEN ties \cup { [list |-> locations, point |-> <<lat, lng>>,
                                          aqi |-> estimatedAQI] }
                        ELSE ties
          /\ clickedLocation' = [location |-> "Location at lat, lng",
                                 coordinates |-> <<lat, lng>>,
                                 aqi |-> estimatedAQI]
    /\ Record("click")
    /\ UNCHANGED << dataVars, loading, isRefreshing, autoRefreshEnabled, countdown,
                    countdownTimer, mounted, inFlight, snapshotCurrent, classified >>

----------------------------------------------------------------------------

Next ==
    \/ \E i \in 1..Len(inFlight), data \in Feeds : FetchResolved(i, data)
    \/ \E i \in 1..Len(inFlight) : FetchRejected(i)
    \/ Tick
    \/ ToggleAutoRefresh
    \/ RefreshNow
    \/ Unmount

Spec == Init /\ [][Next]_vars

----------------------------------------------------------------------------
(* The component under observation: the observer starts counting in any   *)
(* state with countdown = 300 and auto-refresh enabled.                    *)

StartObserving ==
    /\ mounted
    /\ autoRefreshEnabled
    /\ countdown = Interval
    /\ ~Observing
    /\ obs' = [on |-> TRUE, ticks |-> 0, refreshes |-> 0, completed |-> FALSE]
    /\ UNCHANGED << pvars, readings, classified >>

NextObserved ==
    \/ StartObserving
    \/ Next

SpecObserved == Init /\ [][NextObserved]_vars

----------------------------------------------------------------------------
(* The component with a fair scheduler: the interval keeps firing while it *)
(* is installed, and every request is settled, by its timeout at the       *)
(* latest.                                                                 *)

\* Some outstanding fetch completes, resolved or rejected.
FetchCompletes ==
    \/ \E i \in 1..Len(inFlight), data \in Feeds : FetchResolved(i, data)
    \/ \E i \in 1..Len(inFlight) : FetchRejected(i)

SpecFair == Init /\ [][Next]_vars /\ WF_vars(Tick) /\ WF_vars(FetchCompletes)

----------------------------------------------------------------------------
(* The estimator under test: the component is mounted, its first fetch     *)
(* delivers any list of up to MaxLocations of the stations below or fails, *)
(* and the map is clicked.                                                 *)

NextEstimate ==
    \/ \E data \in EstimateFeeds : FetchResolved(1, data)
    \/ FetchRejected(1)
    \/ \E point \in ClickPoints : HandleMapClick(point[1], point[2])

SpecEstimate == Init /\ [][NextEstimate]_vars

----------------------------------------------------------------------------
(* The component with its map: the feed delivers the list of MapFeeds or   *)
(* fails, the map is clicked at two points, and the history of the         *)
(* estimates is kept.  The fetches are those of the mount effect and of    *)
(* the timer; the Refresh Now button is left alone.                        *)

MapClickPoints == { <<284100, 770100>>, <<284300, 770100>> }

InitMap == InitComponent /\ readings = NoReadings /\ classified = NotClassified

NextMap ==
    \/ \E i \in 1..Len(inFlight), data \in MapFeeds : FetchResolved(i, data)
    \/ \E i \in 1..Len(inFlight) : FetchRejected(i)
    \/ Tick
    \/ ToggleAutoRefresh
    \/ Unmount
    \/ \E point \in MapClickPoints : HandleMapClick(point[1], point[2])

SpecMap == InitMap /\ [][NextMap]_vars

----------------------------------------------------------------------------
(* The classifiers under test: each of the four components labels the      *)
(* same index.                                                             *)

InitLabels ==
    /\ InitComponent
    /\ readings = NotNoting
    /\ classified \in { [value |-> aqi, labels |-> NoLabels] : aqi \in IndexValues }

Classify ==
    /\ classified.labels = NoLabels
    /\ classified' = [classified EXCEPT
                        !.labels = [map |-> getAQICategory(classified.value),
                                    gauge |-> getAQILevel(classified.value),
                                    trend |-> getAQILabel(classified.value),
                                    forecast |-> ForecastGetAQILabel(classified.value)]]
    /\ UNCHANGED << pvars, obs, readings >>

SpecLabels == InitLabels /\ [][Classify]_vars

----------------------------------------------------------------------------
(* Properties *)

\* The name and the index of each location of a list, in order.
Indices(list) == [ i \in 1..Len(list) |-> << list[i].location, list[i].aqi >> ]

\* C1: at most one fetch of the location set is outstanding in every reachable
\* state: neither the mount fetch, nor a timer tick, nor a manual refresh
\* starts a fetch while an earlier one has not completed.
C1_AtMostOneFetchInFlight == Len(inFlight) <= 1

\* C2: the location set is always the result of the most recently started
\* fetch among those that have completed: it is never overwritten by the
\* result of a fetch started before the one whose result it holds.
C2_LocationsAreLatestSnapshot == snapshotCurrent

\* C3: whenever a fetch completes, resolved or rejected, the next state has
\* isRefreshing = false and countdown = 300, and autoRefreshEnabled is as before.
C3_CompletionResetsCountdown ==
    [][ (mounted /\ FetchCompletes) =>
          /\ isRefreshing' = FALSE
          /\ countdown' = 300
          /\ autoRefreshEnabled' = autoRefreshEnabled ]_vars

\* C3 witness: a fetch has just completed after the countdown had run down.
C3_Witness ==
    /\ mounted
    /\ lastEvent \in {"resolved", "rejected"}
    /\ ~isRefreshing
    /\ countdown = 300
    /\ ~autoRefreshEnabled

\* C4: when a fetch fails, the location set is exactly the four-location
\* fallback list, the error flag is set, the last-updated label carries the
\* fallback annotation, and the component is not stuck: its controls are
\* rendered and the Refresh Now button is enabled.
C4_FailureSubstitutesFallback ==
    (mounted /\ lastEvent = "rejected") =>
        /\ Indices(locations) = << <<"Sector 56", Index(175)>>,
                                   <<"DLF Cyber City", Index(160)>>,
                                   <<"Golf Course Road", Index(155)>>,
                                   <<"MG Road", Index(168)>> >>
        /\ error # NoError
        /\ HasFallbackAnnotation(lastUpdated)
        /\ ~loading
        /\ ~isRefreshing
        /\ ENABLED ToggleAutoRefresh
        /\ ENABLED RefreshNow

\* C4 witness: a fetch has just failed, after an earlier one had succeeded.
C4_Witness ==
    /\ mounted
    /\ lastEvent = "rejected"
    /\ error = FetchError
    /\ locations = FallbackLocations
    /\ Len(inFlight) = 0

\* C5 as stated: starting with countdown = 300 and auto-refresh enabled, after
\* exactly 300 timer ticks with no manual refresh, exactly one refresh has been
\* triggered by the timer and the countdown is 300 again.
C5_OneRefreshAfter300Ticks ==
    (Observing /\ obs.ticks = 300) => (obs.refreshes = 1 /\ countdown = 300)

\* C5 amended: the same, provided no fetch completes during those ticks.
C5_OneRefreshAfter300TicksNoCompletion ==
    (Observing /\ obs.ticks = 300 /\ ~obs.completed) =>
        (obs.refreshes = 1 /\ countdown = 300)

\* C5 witness: the 300th tick of a run without completion or manual refresh.
C5_Witness ==
    /\ Observing
    /\ obs.ticks = 300
    /\ ~obs.completed
    /\ obs.refreshes = 1
    /\ lastEvent = "timerRefresh"

\* C6: while a fetch is outstanding, a timer tick does not decrement the
\* countdown: the countdown decrements only while no fetch is outstanding.
C6_NoDecrementWhileRefreshing ==
    [][ (Tick /\ Len(inFlight) > 0) => countdown' = countdown ]_vars

\* C7: while auto-refresh is disabled no timer tick takes effect: no tick
\* fires, the countdown is never decremented, and a fetch is started only by
\* a manual refresh.
C7_NoTickWhileDisabled ==
    [][ ~autoRefreshEnabled =>
          /\ ~Tick
          /\ countdown' >= countdown
          /\ (Len(inFlight') > Len(inFlight) => RefreshNow) ]_vars

\* C7 witness: auto-refresh is off in the middle of a countdown.
C7_Witness ==
    /\ mounted
    /\ ~autoRefreshEnabled
    /\ ~countdownTimer
    /\ countdown < 300
    /\ lastEvent = "toggle"

\* C8 as stated: the toggle from disabled to enabled leaves the countdown at 300,
\* whatever it was when auto-refresh was disabled.
C8_ReEnableResetsCountdown ==
    [][ (ToggleAutoRefresh /\ ~autoRefreshEnabled) => countdown' = 300 ]_vars

\* C8 amended: the toggle from disabled to enabled restarts the timer and leaves
\* the countdown at the value it had just before the toggle.
C8_ReEnableResumesCountdown ==
    [][ (ToggleAutoRefresh /\ ~autoRefreshEnabled) =>
          /\ autoRefreshEnabled'
          /\ countdownTimer'
          /\ countdown' = countdown ]_vars

\* C8 witness: auto-refresh has just been re-enabled in the middle of a countdown.
C8_Witness ==
    /\ mounted
    /\ autoRefreshEnabled
    /\ countdownTimer
    /\ lastEvent = "toggle"
    /\ countdown < 300

\* C9: while auto-refresh is disabled the Refresh Now button starts a fetch
\* whatever the countdown is, and neither the start nor the completion of a
\* fetch changes autoRefreshEnabled or restarts the timer.
C9_RefreshKeepsAutoRefreshSetting ==
    /\ [] ( ( /\ mounted
              /\ ~loading
              /\ ~isRefreshing
              /\ ~autoRefreshEnabled ) => ENABLED RefreshNow )
    /\ [][ RefreshNow =>
             /\ Len(inFlight') = Len(inFlight) + 1
             /\ isRefreshing'
             /\ countdown' = countdown ]_vars
    /\ [][ (RefreshNow \/ FetchCompletes \/ (Tick /\ countdown <= 1)) =>
             /\ autoRefreshEnabled' = autoRefreshEnabled
             /\ countdownTimer' = countdownTimer ]_vars

\* C9 witness: a manual refresh has just started with auto-refresh disabled
\* in the middle of a countdown.
C9_Witness ==
    /\ mounted
    /\ ~autoRefreshEnabled
    /\ ~countdownTimer
    /\ lastEvent = "refreshNow"
    /\ isRefreshing
    /\ countdown < 300

\* C10: in every reachable state in which some fetch is outstanding, the
\* Refresh Now button is disabled.
C10_NoManualRefreshWhileInFlight ==
    (mounted /\ Len(inFlight) > 0) => ~ENABLED RefreshNow

\* C11: once the component is torn down no timer tick fires, the countdown
\* stays as it is and no fetch is started; an interval is installed only
\* while the component is mounted with auto-refresh enabled, so none
\* survives teardown or the toggling off of auto-refresh.
C11_NoTickAfterTeardown ==
    /\ [](countdownTimer => (mounted /\ autoRefreshEnabled))
    /\ [][ (~mounted \/ ~autoRefreshEnabled) => ~Tick ]_vars
    /\ [][ ~mounted => /\ countdown' = countdown
                       /\ Len(inFlight') <= Len(inFlight) ]_vars

\* Torn down in the middle of a countdown with a manual refresh outstanding.
C11_Witness ==
    /\ ~mounted
    /\ ~countdownTimer
    /\ autoRefreshEnabled
    /\ countdown < Interval
    /\ Len(inFlight) > 0
    /\ lastEvent = "unmount"

\* C12: after a failed fetch with auto-refresh enabled, the timer starts
\* another fetch unless the user toggles, refreshes or leaves first; a failure
\* sets the countdown to 300, every tick takes one off it, and a tick starts
\* a fetch only when the countdown has run down to 1.
C12_TimerRetriesAfterFailure ==
    /\ (mounted /\ autoRefreshEnabled /\ lastEvent = "rejected")
          ~> (lastEvent \in {"timerRefresh", "toggle", "refreshNow", "unmount"})
    /\ [][ (mounted /\ \E i \in 1..Len(inFlight) : FetchRejected(i))
              => countdown' = Interval ]_vars
    /\ [][ Tick => IF Len(inFlight') > Len(inFlight)
                      THEN countdown = 1
                      ELSE countdown' = countdown - 1 ]_vars

\* The timer has started a fetch while the fallback list of a failure is shown.
C12_Witness ==
    /\ mounted
    /\ autoRefreshEnabled
    /\ lastEvent = "timerRefresh"
    /\ error = FetchError
    /\ locations = FallbackLocations
    /\ Len(inFlight) = 1

\* C13 as stated: whenever a map click can be handled, the location set is
\* non-empty.
C13_LocationsNonEmpty == MapClickable => Len(locations) > 0

\* C13: whenever a map click can be handled, the location set is empty only
\* if the fetch applied last succeeded with an empty list; after a failure
\* it is the fallback list.
C13_EmptyOnlyAfterEmptySuccess ==
    /\ (MapClickable /\ Len(locations) = 0)
          => (error = NoError /\ lastUpdated = Timestamp)
    /\ (MapClickable /\ error # NoError) => locations = FallbackLocations

\* The map is shown with the empty list a successful refresh has delivered.
C13_Witness ==
    /\ MapClickable
    /\ Len(locations) = 0
    /\ error = NoError
    /\ lastEvent = "resolved"
    /\ countdown = Interval

----------------------------------------------------------------------------
(* Properties of estimateAQI, stated on the estimate a click has stored.   *)
(* Under SpecEstimate the location set does not change after a click.      *)

Clicked == clickedLocation # NoLocation

ClickedLat == clickedLocation.coordinates[1]

ClickedLng == clickedLocation.coordinates[2]

\* The positions of the locations strictly within the tolerance box of the
\* clicked point.
WithinBox ==
    { i \in 1..Len(locations) :
        /\ ClickedLat - locations[i].coordinates[1] < Tolerance
        /\ locations[i].coordinates[1] - ClickedLat < Tolerance
        /\ ClickedLng - locations[i].coordinates[2] < Tolerance
        /\ locations[i].coordinates[2] - ClickedLng < Tolerance }

\* The planar squared coordinate distance of the i-th location to the clicked point.
SquaredDistance(i) ==
    (ClickedLat - locations[i].coordinates[1]) ^ 2
    + (ClickedLng - locations[i].coordinates[2]) ^ 2

RECURSIVE DistanceProduct(_, _)
\* The product of the squared distances of the first n locations but the i-th:
\* the weight 1 / SquaredDistance(i) over the common denominator.
DistanceProduct(n, i) ==
    IF n = 0 THEN BigOf(1)
    ELSE IF n = i THEN DistanceProduct(n - 1, i)
    ELSE BigScale(DistanceProduct(n - 1, i), SquaredDistance(n))

RECURSIVE WeightTotal(_)
WeightTotal(n) ==
    IF n = 0 THEN << >>
    ELSE BigAdd(WeightTotal(n - 1), DistanceProduct(Len(locations), n))

RECURSIVE WeightedIndexTotal(_)
WeightedIndexTotal(n) ==
    IF n = 0 THEN << >>
    ELSE BigAdd(WeightedIndexTotal(n - 1),
                BigScale(DistanceProduct(Len(locations), n), locations[n].aqi))

\* r is a whole index and a nearest one to total / weight: r differs from the
\* quotient by at most one half.
NearestWhole(r, total, weight) ==
    /\ r >= 0
    /\ r % IndexScale = 0
    /\ BigLeq(BigScale(total, 2), BigScale(weight, 2 * r + IndexScale))
    /\ \/ r = 0
       \/ BigLeq(BigScale(weight, 2 * r - IndexScale), BigScale(total, 2))

\* C14: with one or more locations strictly within the tolerance box of the
\* query point, the estimate is the index of the first of them in list order
\* and the function leaves by the direct return; with none (and a non-empty
\* list) it leaves by the interpolation.
C14_ExactMatchRule ==
    (Clicked /\ Len(locations) > 0) =>
        IF WithinBox # {}
           THEN /\ \E i \in WithinBox :
                      /\ \A j \in WithinBox : i <= j
                      /\ clickedLocation.aqi = locations[i].aqi
                /\ EstimateBranch(locations, ClickedLat, ClickedLng) = "nearby"
           ELSE /\ EstimateBranch(locations, ClickedLat, ClickedLng) = "interpolated"
                /\ NearestWhole(clickedLocation.aqi, WeightedIndexTotal(Len(locations)),
                                WeightTotal(Len(locations)))

\* Two stations are within the box of the click; the first in the list wins.
C14_Witness ==
    /\ Clicked
    /\ locations = << Loc("A", 284000, 770000, 100), Loc("N", 284030, 769980, 60) >>
    /\ clickedLocation.coordinates = << 284030, 769980 >>
    /\ clickedLocation.aqi = Index(100)

\* C15 as stated: a click at the coordinates of any location of the list
\* yields exactly that location's index.
C15_ExactAtLocation ==
    Clicked =>
        \A i \in 1..Len(locations) :
            clickedLocation.coordinates = locations[i].coordinates
                => clickedLocation.aqi = locations[i].aqi

\* C15: a click at the coordinates of a location L yields exactly L's index
\* whenever no location before L in the list lies within the tolerance box
\* of L, also when locations after L do.
C15_ExactAtFirstLocation ==
    Clicked =>
        \A i \in 1..Len(locations) :
            ( /\ clickedLocation.coordinates = locations[i].coordinates
              /\ \A j \in WithinBox : i <= j )
                => clickedLocation.aqi = locations[i].aqi

\* A click at N, which is first in the list and has A within its box.
C15_Witness ==
    /\ Clicked
    /\ locations = << Loc("N", 284030, 769980, 60), Loc("A", 284000, 770000, 100) >>
    /\ clickedLocation.coordinates = << 284030, 769980 >>
    /\ clickedLocation.aqi = Index(60)

\* C16: with no location within the tolerance box, the estimate is the
\* whole number nearest to sum(w_i * index_i) / sum(w_i), where w_i is one
\* over the planar squared coordinate distance of the i-th location.
C16_InterpolationRule ==
    (Clicked /\ Len(locations) > 0 /\ WithinBox = {}) =>
        NearestWhole(clickedLocation.aqi, WeightedIndexTotal(Len(locations)),
                     WeightTotal(Len(locations)))

\* An estimate blended from three stations at different distances.
C16_Witness ==
    /\ Clicked
    /\ Len(locations) = 3
    /\ WithinBox = {}
    /\ clickedLocation.coordinates = << 284300, 770100 >>
    /\ \A i \in 1..3 : clickedLocation.aqi # locations[i].aqi

\* The list has two locations, both outside the tolerance box of the click
\* and at the same distance from it.
Equidistant ==
    /\ Clicked
    /\ Len(locations) = 2
    /\ WithinBox = {}
    /\ SquaredDistance(1) = SquaredDistance(2)

\* The estimate is a whole index nearest to the simple average of the two.
RoundedAverage ==
    /\ clickedLocation.aqi % IndexScale = 0
    /\ 2 * clickedLocation.aqi - (locations[1].aqi + locations[2].aqi) <= IndexScale
    /\ (locations[1].aqi + locations[2].aqi) - 2 * clickedLocation.aqi <= IndexScale

\* The scenario of the specification: A index 100, B index 200, query midway.
ScenarioAB ==
    /\ locations = << Loc("A", 284000, 770000, 100), Loc("B", 284200, 770200, 200) >>
    /\ clickedLocation.coordinates = << 284100, 770100 >>

\* C17 as stated: the estimate is the rounded simple average, the shared
\* value when the two indices are equal, and 150 in the scenario.
C17_EquidistantAverage ==
    Equidistant =>
        /\ RoundedAverage
        /\ locations[1].aqi = locations[2].aqi => clickedLocation.aqi = locations[1].aqi
        /\ ScenarioAB => clickedLocation.aqi = Index(150)

\* C17: the estimate is the rounded simple average, which is the shared
\* value when the two indices are equal and whole, and 150 in the scenario.
C17_EquidistantRoundedAverage ==
    Equidistant =>
        /\ RoundedAverage
        /\ (locations[1].aqi = locations[2].aqi /\ locations[1].aqi % IndexScale = 0)
              => clickedLocation.aqi = locations[1].aqi
        /\ ScenarioAB => clickedLocation.aqi = Index(150)

C17_Witness ==
    /\ Equidistant
    /\ ScenarioAB
    /\ clickedLocation.aqi = Index(150)

\* C18 as stated: a single location's index is the estimate at every point.
C18_SingleLocation ==
    (Clicked /\ Len(locations) = 1) => clickedLocation.aqi = locations[1].aqi

\* C18: with a single location the estimate is defined at every point: the
\* location's index within its tolerance box, and outside it a whole index
\* nearest to the location's, which is the index itself when that is whole.
C18_SingleLocationRounded ==
    (Clicked /\ Len(locations) = 1) =>
        /\ clickedLocation.aqi # NaN
        /\ IF WithinBox # {}
              THEN clickedLocation.aqi = locations[1].aqi
              ELSE /\ clickedLocation.aqi % IndexScale = 0
                   /\ 2 * (clickedLocation.aqi - locations[1].aqi) <= IndexScale
                   /\ 2 * (locations[1].aqi - clickedLocation.aqi) <= IndexScale
        /\ locations[1].aqi % IndexScale = 0 => clickedLocation.aqi = locations[1].aqi

\* A click far from the only station, whose index is not whole.
C18_Witness ==
    /\ Clicked
    /\ locations = << LocFractional("A2", 284000, 770000, 87) >>
    /\ WithinBox = {}
    /\ clickedLocation.aqi = Index(88)

\* C19: with the empty list the estimate is 0 at every point, and the
\* function leaves before the loop and the division.
C19_EmptyListYieldsZero ==
    (Clicked /\ Len(locations) = 0) =>
        /\ clickedLocation.aqi = 0
        /\ EstimateBranch(locations, ClickedLat, ClickedLng) = "empty"

\* A click on the map of a feed that has delivered no location.
C19_Witness ==
    /\ Clicked
    /\ locations = << >>
    /\ error = NoError
    /\ clickedLocation.aqi = 0
    /\ lastEvent = "click"

\* C20: after a failed fetch the estimate is taken from the four fallback
\* locations; it is a defined index at every query point, and 175 at the
\* coordinates of Sector 56.
C20_FallbackEstimate ==
    (MapClickable /\ error = FetchError) =>
        /\ Len(locations) = 4
        /\ \A point \in ClickPoints :
              \A estimate \in Estimates(locations, point[1], point[2]) :
                  estimate # NaN /\ estimate >= 0
        /\ Estimates(locations, 284089, 770926) = { Index(175) }
        /\ (Clicked /\ clickedLocation.coordinates = << 284089, 770926 >>)
              => clickedLocation.aqi = Index(175)

\* A click at Sector 56 while the fallback list of a failed fetch is shown.
C20_Witness ==
    /\ error = FetchError
    /\ locations = FallbackLocations
    /\ lastEvent = "click"
    /\ clickedLocation.coordinates = << 284089, 770926 >>
    /\ clickedLocation.aqi = Index(175)

----------------------------------------------------------------------------
(* Properties of the component with its map *)

\* C21: the estimates made at one point between two fetch completions are
\* all the same, whatever ticks, toggles and clicks at other points come
\* between them; and a click leaves the location set, the
\* error, the label, the refresh flags, the countdown, its interval and the
\* outstanding fetches as they are.
C21_EstimateDependsOnSnapshotAndPoint ==
    /\ [](\A r1, r2 \in readings.seen : r1.point = r2.point => r1.aqi = r2.aqi)
    /\ [][ lastEvent' = "click"
              => UNCHANGED << locations, error, lastUpdated, loading, isRefreshing,
                              autoRefreshEnabled, countdown, countdownTimer,
                              inFlight >> ]_vars

\* A second click at the point where the estimate is a tie, after a click
\* elsewhere, with auto-refresh toggled off in the middle of a countdown.
C21_Witness ==
    /\ readings.again
    /\ Cardinality(readings.seen) = 2
    /\ lastEvent = "click"
    /\ clickedLocation.coordinates = << 284300, 770100 >>
    /\ locations \in MapFeeds
    /\ ~autoRefreshEnabled
    /\ countdown < Interval

----------------------------------------------------------------------------
(* Properties of the classifiers *)

\* The bounds of the categories of the specification's table, in rising order.
CategoryTable ==
    << << 50, "Good" >>, << 100, "Moderate" >>,
       << 150, "Unhealthy for Sensitive Groups" >>, << 200, "Unhealthy" >>,
       << 300, "Very Unhealthy" >> >>

\* The category of the table: that of the first bound the index does not
\* exceed, Hazardous beyond the last.
CategoryOf(aqi) ==
    LET fits == { i \in 1..Len(CategoryTable) : aqi <= Index(CategoryTable[i][1]) }
    IN  IF fits = {} THEN "Hazardous"
        ELSE CategoryTable[CHOOSE i \in fits : \A j \in fits : i <= j][2]

\* C22: the four classifiers give every index the category of the table, and
\* so the same one.
C22_ClassifiersAgree ==
    classified.labels # NoLabels =>
        /\ classified.labels.map = CategoryOf(classified.value)
        /\ classified.labels.gauge = classified.labels.map
        /\ classified.labels.trend = classified.labels.map
        /\ classified.labels.forecast = classified.labels.map

\* An index on the bound of a category, classified.
C22_Witness ==
    /\ classified.value = Index(150)
    /\ classified.labels.gauge = "Unhealthy for Sensitive Groups"
    /\ classified.labels.forecast = "Unhealthy for Sensitive Groups"

----------------------------------------------------------------------------
(* Properties of the refreshes *)

\* A fetch completion that the mounted component has just applied.
CompletionApplied == mounted /\ lastEvent' \in {"resolved", "rejected"}

\* C23: a fetch completion leaves exactly the list which that fetch
\* delivered, or exactly the fallback list when it failed: the set is replaced
\* and never mixes two results.
C23_RefreshReplacesSet ==
    [][ CompletionApplied =>
            IF lastEvent' = "resolved" THEN locations' \in Feeds
            ELSE locations' = FallbackLocations ]_vars

\* A second result has replaced a non-empty one: the fetch completing last
\* had been started before one that completed earlier.
C23_Witness ==
    /\ mounted
    /\ lastEvent = "resolved"
    /\ ~snapshotCurrent
    /\ locations = << Loc("C", 284500, 770500, 40) >>

\* C24: the reading displayed for the clicked location was estimated after
\* the fetch completion applied last: a completion ends the readings made
\* from the list it replaces.
C24_ReadingEndsAtRefresh ==
    (mounted /\ readings.on /\ clickedLocation # NoLocation) =>
        \E r \in readings.seen : /\ r.point = clickedLocation.coordinates
                                 /\ r.aqi = clickedLocation.aqi

\* C25: while the component is mounted, isRefreshing is true exactly when
\* some fetch is outstanding.
C25_RefreshingIffInFlight ==
    mounted => (isRefreshing <=> Len(inFlight) > 0)

\* C26: the error is set exactly when the fetch completion applied last was
\* a failure, and exactly then the last-updated label ends with the fallback
\* annotation and the list is the fallback list; a success clears both.
C26_ErrorIffLastFetchFailed ==
    /\ [](error # NoError <=>
             (HasFallbackAnnotation(lastUpdated) /\ locations = FallbackLocations))
    /\ [][ IF CompletionApplied
              THEN (error' # NoError) <=> (lastEvent' = "rejected")
              ELSE UNCHANGED << error, lastUpdated, locations >> ]_vars

\* A failure has been applied while another fetch is still outstanding.
C26_Witness ==
    /\ mounted
    /\ lastEvent = "rejected"
    /\ error = FetchError
    /\ lastUpdated = Timestamp \o FallbackSuffix
    /\ locations = FallbackLocations
    /\ Len(inFlight) > 0

\* C27: the countdown is always a whole number from 1 to 300: the firing of
\* the interval at a countdown of 1 or less starts the refresh and sets the
\* countdown to 300, and does not decrement it.
C27_CountdownInRange ==
    /\ [](countdown \in 1..Interval)
    /\ [][ (lastEvent' \in {"tick", "timerRefresh"} /\ countdown <= 1) =>
              /\ countdown' = Interval
              /\ lastEvent' = "timerRefresh"
              /\ Len(inFlight') = Len(inFlight) + 1 ]_vars

\* The interval has fired at a countdown of 1: the refresh is under way.
C27_Witness ==
    /\ lastEvent = "timerRefresh"
    /\ countdown = Interval
    /\ Len(inFlight) = 1
    /\ inFlight[1].age = 0

----------------------------------------------------------------------------
(* The range of the estimate *)

\* Every index of the location set is a whole number.
WholeIndices == \A i \in 1..Len(locations) : locations[i].aqi % IndexScale = 0

\* C28: for a non-empty location set with whole indices, the estimate at any
\* query point is no less than the least and no more than the greatest index
\* of the set, by whichever return it was produced.
C28_EstimateWithinRange ==
    (Clicked /\ Len(locations) > 0 /\ WholeIndices) =>
        /\ \E i \in 1..Len(locations) : locations[i].aqi <= clickedLocation.aqi
        /\ \E i \in 1..Len(locations) : clickedLocation.aqi <= locations[i].aqi

\* An interpolated estimate on the bound of the range: both stations have the
\* index 100 and neither is within the box of the point.
C28_Witness ==
    /\ Clicked
    /\ locations = << Loc("A", 284000, 770000, 100), Loc("B2", 284200, 770200, 100) >>
    /\ clickedLocation.coordinates = << 284300, 770100 >>
    /\ EstimateBranch(locations, ClickedLat, ClickedLng) = "interpolated"
    /\ clickedLocation.aqi = Index(100)

----------------------------------------------------------------------------
(* Properties of the life of the component *)

\* C29: while loading is true the map and the controls are not rendered, so
\* no click, toggle or manual refresh can be handled; loading is true from
\* the mount until the first fetch completion is applied and false ever
\* after, whatever refresh is under way.
C29_LoadingOnlyUntilFirstCompletion ==
    /\ [](loading =>
             /\ ~ENABLED ToggleAutoRefresh
             /\ ~ENABLED RefreshNow
             /\ \A point \in ClickPoints : ~ENABLED HandleMapClick(point[1], point[2]))
    /\ [][ loading' <=> (loading /\ ~CompletionApplied) ]_vars

\* A later refresh is under way and the map is still rendered.
C29_Witness ==
    /\ mounted
    /\ ~loading
    /\ isRefreshing
    /\ lastEvent = "refreshNow"
    /\ Len(inFlight) = 1

====
